---- MODULE Spec2Model ----
(***************************************************************************)
(* Model of src/services/geminiService.ts: the retry engine                *)
(* (retryWithBackoff), the batch orchestrator (generateTableData), the row *)
(* auto-fix path (fixDataRows) and the file-inference path                 *)
(* (analyzeFileAndGenerate).                                               *)
(*                                                                         *)
(* One action of the model is one synchronous segment of the JavaScript    *)
(* code, from one suspension point (await) to the next: the event loop     *)
(* runs such a segment to completion.  The oracle (the Gemini service),    *)
(* Math.random and the caller are the environment; their choices are drawn *)
(* from small sets.                                                        *)
(*                                                                         *)
(* Strings whose content the code inspects (message, statusText, '@type',  *)
(* retryDelay) are tuples of one-character strings, so that includes,      *)
(* toLowerCase, replace, match and parseFloat are computed, not assumed.   *)
(* Durations are integers in milliseconds; parseFloat keeps three decimals *)
(* of a second (one millisecond) and no exponent part.                     *)
(***************************************************************************)
EXTENDS Integers, Sequences, FiniteSets, TLC

(***************************************************************************)
(* Bounds of the model                                                     *)
(***************************************************************************)
\* largest template.defaultRows tried (three batches of 40)
MaxTotalRows == 81
\* how many rows more than requested the oracle may return in one batch
MaxExtra == 2
\* largest number of rows handed to fixDataRows
MaxFixRows == 2
\* the handlers of the App that may be suspended at the same time
MaxPending == 2
\* the custom templates ever created by uploads
MaxCustom == 1
\* the largest number of rows a core call hands back to the App
MaxAppRows == 2

(***************************************************************************)
(* Program constants                                                       *)
(***************************************************************************)
BATCH_SIZE == 40
DefaultRetries == 5
DefaultBaseDelay == 3000
DefaultMaxDelay == 120000
PacingDelay == 2000
RetryBuffer == 2000

Min(a, b) == IF a < b THEN a ELSE b

\* Math.ceil(a / b) for b > 0
Ceil(a, b) == IF a % b = 0 THEN a \div b ELSE (a \div b) + 1

(***************************************************************************)
(* Strings as character tuples                                             *)
(***************************************************************************)
Upper == <<"A","B","C","D","E","F","G","H","I","J","K","L","M",
           "N","O","P","Q","R","S","T","U","V","W","X","Y","Z">>
Lower == <<"a","b","c","d","e","f","g","h","i","j","k","l","m",
           "n","o","p","q","r","s","t","u","v","w","x","y","z">>
DigitChars == <<"0","1","2","3","4","5","6","7","8","9">>
DigitSet == {DigitChars[k] : k \in 1..10}

LowerChar(c) ==
  IF \E k \in 1..26 : Upper[k] = c
    THEN Lower[CHOOSE k \in 1..26 : Upper[k] = c]
    ELSE c

\* String.prototype.toLowerCase
ToLowerCase(s) == [k \in 1..Len(s) |-> LowerChar(s[k])]

\* sub occurs in s starting at (1-based) position k
MatchesAt(s, sub, k) ==
  /\ k >= 1
  /\ k + Len(sub) - 1 <= Len(s)
  /\ \A j \in 1..Len(sub) : s[k + j - 1] = sub[j]

\* String.prototype.includes
Includes(s, sub) == \E k \in 1..(Len(s) + 1) : MatchesAt(s, sub, k)

\* String.prototype.replace(sub, '') with a string pattern: first occurrence only
ReplaceFirst(s, sub) ==
  IF Includes(s, sub)
    THEN LET k == CHOOSE p \in 1..(Len(s) + 1) :
                    /\ MatchesAt(s, sub, p)
                    /\ \A q \in 1..(p - 1) : ~MatchesAt(s, sub, q)
         IN SubSeq(s, 1, k - 1) \o SubSeq(s, k + Len(sub), Len(s))
    ELSE s

\* length of the longest run of characters of class C in s starting at from
RunLen(s, from, C) ==
  CHOOSE n \in 0..(Len(s) - from + 1) :
    /\ \A k \in 0..(n - 1) : s[from + k] \in C
    /\ (from + n > Len(s) \/ s[from + n] \notin C)

DigitVal(c) == (CHOOSE k \in 1..10 : DigitChars[k] = c) - 1

RECURSIVE DigitsToNat(_)
DigitsToNat(run) ==
  IF run = <<>> THEN 0
  ELSE DigitsToNat(SubSeq(run, 1, Len(run) - 1)) * 10 + DigitVal(run[Len(run)])

\* the first three decimals of a fraction digit run, as thousandths
FracToMilli(run) ==
  LET d(k) == IF k <= Len(run) THEN DigitVal(run[k]) ELSE 0
  IN d(1) * 100 + d(2) * 10 + d(3)

\* parseFloat: optional sign, digits, optional '.' and digits; the rest of the
\* string is ignored.  The value is returned in thousandths (seconds -> ms).
ParseFloat(s) ==
  LET signed == Len(s) >= 1 /\ s[1] \in {"-", "+"}
      start  == IF signed THEN 2 ELSE 1
      sign   == IF signed /\ s[1] = "-" THEN -1 ELSE 1
      nInt   == RunLen(s, start, DigitSet)
      dotAt  == start + nInt
      hasDot == dotAt <= Len(s) /\ s[dotAt] = "."
      nFrac  == IF hasDot THEN RunLen(s, dotAt + 1, DigitSet) ELSE 0
      intRun == SubSeq(s, start, start + nInt - 1)
      fracRun == SubSeq(s, dotAt + 1, dotAt + nFrac)
  IN IF nInt = 0 /\ nFrac = 0
       THEN [nan |-> TRUE, milli |-> 0]
       ELSE [nan |-> FALSE,
             milli |-> sign * (DigitsToNat(intRun) * 1000 + FracToMilli(fracRun))]

RetryIn == <<"r","e","t","r","y"," ","i","n"," ">>

\* message.match(/retry in ([\d.]+)s/): the capture group of the leftmost
\* match, or the empty string when there is no match
MatchRetryIn(s) ==
  LET C == DigitSet \cup {"."}
      ok(k) == /\ MatchesAt(s, RetryIn, k)
               /\ LET n == RunLen(s, k + Len(RetryIn), C)
                  IN /\ n >= 1
                     /\ k + Len(RetryIn) + n <= Len(s)
                     /\ s[k + Len(RetryIn) + n] = "s"
  IN IF \E k \in 1..Len(s) : ok(k)
       THEN LET k == CHOOSE p \in 1..Len(s) :
                       ok(p) /\ \A q \in 1..(p - 1) : ~ok(q)
            IN SubSeq(s, k + Len(RetryIn),
                      k + Len(RetryIn) + RunLen(s, k + Len(RetryIn), C) - 1)
       ELSE <<>>

(***************************************************************************)
(* Failure values.  A field of a failure object that the code reads with   *)
(* || or compares with == / === is a tagged value: absent, a number or a   *)
(* string.                                                                 *)
(***************************************************************************)
Absent == [t |-> "none", n |-> 0, s |-> ""]
Num(k) == [t |-> "num", n |-> k, s |-> ""]
Str(x) == [t |-> "str", n |-> 0, s |-> x]

\* JavaScript truthiness of a tagged value
Truthy(v) == (v.t = "num" /\ v.n # 0) \/ (v.t = "str" /\ v.s # "")

\* a || b
OrElse(a, b) == IF Truthy(a) THEN a ELSE b

\* v == k for a number k (loose equality: the numeric string also matches)
LooseEqNum(v, k) ==
  (v.t = "num" /\ v.n = k) \/ (v.t = "str" /\ v.s = ToString(k))

\* v === x for a string x
StrictEqStr(v, x) == v.t = "str" /\ v.s = x

\* a || b for strings (the empty string is falsy)
OrElseStr(a, b) == IF a # <<>> THEN a ELSE b

NoDetails == [present |-> FALSE, items |-> <<>>]
Details(items) == [present |-> TRUE, items |-> items]

\* a failure object with every inspected field absent
BlankError ==
  [name |-> "blank",
   ecode |-> Absent, code |-> Absent, status |-> Absent,
   message |-> <<>>, emessage |-> <<>>,
   statusText |-> <<>>, rstatusText |-> <<>>,
   edetails |-> NoDetails, details |-> NoDetails]

NoError == [BlankError EXCEPT !.name = "none"]

sQuota == <<"q","u","o","t","a">>
sOverloaded == <<"o","v","e","r","l","o","a","d","e","d">>
sOverloadedCap == <<"O","v","e","r","l","o","a","d","e","d">>
s429 == <<"4","2","9">>
sRetryInfo == <<"R","e","t","r","y","I","n","f","o">>
sS == <<"s">>

\* const code = error?.error?.code || error?.code || error?.status
ErrorCode(e) == OrElse(OrElse(e.ecode, e.code), e.status)

\* const message = error?.message || error?.error?.message || ''
ErrorMessage(e) == OrElseStr(e.message, e.emessage)

\* const statusText = error?.statusText || error?.response?.statusText || ''
ErrorStatusText(e) == OrElseStr(e.statusText, e.rstatusText)

\* const details = error?.error?.details || error?.details (an array is truthy)
ErrorDetails(e) == IF e.edetails.present THEN e.edetails ELSE e.details

\* every failure is retriable, whatever it carries
IsRetriable_Always(e) == TRUE

IsRetriable(e) ==
  LET code == ErrorCode(e)
      message == ErrorMessage(e)
      statusText == ErrorStatusText(e)
  IN \/ LooseEqNum(code, 503)
     \/ LooseEqNum(code, 429)
     \/ StrictEqStr(code, "UNAVAILABLE")
     \/ StrictEqStr(code, "RESOURCE_EXHAUSTED")
     \/ Includes(statusText, sOverloadedCap)
     \/ Includes(ToLowerCase(message), sQuota)
     \/ Includes(message, sOverloaded)
     \/ Includes(message, s429)

\* the guard retries >= 0 would allow one attempt too many
ShouldRetry_OffByOne(retries, e) == retries >= 0 /\ IsRetriable(e)

\* if (retries > 0 && isRetriable)
ShouldRetry(retries, e) == retries > 0 /\ IsRetriable(e)

\* baseDelay * (1 + Math.random() * 0.5), the random factor in percent
JitterDelay(baseDelay, jitterPct) == (baseDelay * (100 + jitterPct)) \div 100

NoDelay == [some |-> FALSE, ms |-> 0]
SomeDelay(ms) == [some |-> TRUE, ms |-> ms]

\* details.find(d => d['@type']?.includes('RetryInfo')) and its retryDelay:
\* the delay in ms that the structured field gives, if it gives one
StructuredDelay(e) ==
  LET d == ErrorDetails(e)
      hit(k) == Includes(d.items[k].type, sRetryInfo)
  IN IF d.present /\ \E k \in 1..Len(d.items) : hit(k)
       THEN LET k == CHOOSE p \in 1..Len(d.items) :
                       hit(p) /\ \A q \in 1..(p - 1) : ~hit(q)
                info == d.items[k]
                f == ParseFloat(ReplaceFirst(info.retryDelay, sS))
            IN IF info.retryDelay # <<>> /\ ~f.nan
                 THEN SomeDelay(f.milli + RetryBuffer)
                 ELSE NoDelay
       ELSE NoDelay

\* the 'retry in N s' message pattern: the delay in ms, if the message has one
MessageDelay(e) ==
  LET m == MatchRetryIn(ErrorMessage(e))
      f == ParseFloat(m)
  IN IF m # <<>> /\ ~f.nan THEN SomeDelay(f.milli + RetryBuffer) ELSE NoDelay

\* the delay before Math.min: the jittered base delay, overwritten by the
\* structured retry delay, overwritten in turn by the message pattern
RawDelay(e, baseDelay, jitterPct) ==
  LET d0 == JitterDelay(baseDelay, jitterPct)
      d1 == IF StructuredDelay(e).some THEN StructuredDelay(e).ms ELSE d0
  IN IF MessageDelay(e).some THEN MessageDelay(e).ms ELSE d1

\* the cap forgotten
RetryDelay_NoCap(e, baseDelay, jitterPct, maxDelay) ==
  RawDelay(e, baseDelay, jitterPct)

\* delay = Math.min(delay, maxDelay)
RetryDelay(e, baseDelay, jitterPct, maxDelay) ==
  Min(RawDelay(e, baseDelay, jitterPct), maxDelay)

\* the base delay growing by a fixed step instead of doubling
NextBaseDelay_Linear(baseDelay, maxDelay) ==
  Min(baseDelay + DefaultBaseDelay, maxDelay)

\* Math.min(baseDelay * 2, maxDelay)
NextBaseDelay(baseDelay, maxDelay) == Min(baseDelay * 2, maxDelay)

(***************************************************************************)
(* The environment: templates, rows, oracle responses and failures         *)
(***************************************************************************)
\* template.columns, by key
Columns == <<"day", "ph_9am", "corrective_action">>

\* requiredFields: one entry per column, in column order
RequiredFields(columns) == [k \in 1..Len(columns) |-> columns[k]]

KeySet(columns) == {columns[k] : k \in 1..Len(columns)}

\* template.defaultRows of the templates tried: one, two and three batches
TotalRowsChoices == {31, 70, MaxTotalRows}

Template(n) == [defaultRows |-> n, columns |-> Columns]

NoTemplate == Template(0)

\* The rows an oracle that follows the prompt writes for a batch announced as
\* starting at row/day startDay: row j of the batch is the row of day
\* startDay + j - 1.  keys is the set of fields each row carries.
OracleRows(startDay, n, keys) ==
  [j \in 1..n |-> [day |-> startDay + j - 1, keys |-> keys, val |-> "gen"]]

\* response.text is empty, is not JSON, or is the JSON text of rows
EmptyResponse == [text |-> "empty", rows |-> <<>>]
GarbageResponse == [text |-> "garbage", rows |-> <<>>]
JsonResponse(rows) == [text |-> "json", rows |-> rows]

\* the guard on response.text skipped
HasText_Always(text) == TRUE

\* if (text): the empty string is falsy
HasText(text) == text # "empty"

\* JSON.parse accepts anything
Parses_Lenient(text) == TRUE

\* JSON.parse(text) returns instead of throwing a SyntaxError
Parses(text) == text = "json"

\* how many rows the oracle may return when asked for req
ReturnCounts(req) == {n \in {0, req - 1, req, req + MaxExtra} : n >= 0}

\* the responses the oracle may give to a batch request: any of the counts
\* with every required field, or the requested count with one field missing
GenerateResponses(startDay, req, columns) ==
  {EmptyResponse, GarbageResponse}
  \cup {JsonResponse(OracleRows(startDay, n, KeySet(columns))) :
          n \in ReturnCounts(req)}
  \cup {JsonResponse(OracleRows(startDay, n,
                                KeySet(columns) \ {columns[Len(columns)]})) :
          n \in {k \in {req} : k >= 1}}

\* the simulation settings of the caller
Config(mode) ==
  [fillRate |-> 80, anomalyChance |-> 10, mode |-> mode, targetMonth |-> "2025-02"]

NoConfig == Config("none")

Configs == {Config("realistic"), Config("chaos")}

\* the table rows of the caller when generation is requested
CurrentRowsChoices == {<<>>, OracleRows(1, 1, KeySet(Columns))}

\* the responses the oracle may give to a file analysis; of the parsed object
\* only the rows are kept here
AnalyzeResponses ==
  {EmptyResponse, GarbageResponse}
  \cup {JsonResponse(OracleRows(1, n, KeySet(Columns))) : n \in {0, MaxFixRows}}

\* the rows handed to fixDataRows
FixInputs ==
  {OracleRows(1, n, KeySet(Columns)) : n \in 1..MaxFixRows}

FixedRow(r) == [r EXCEPT !.val = "fixed"]

\* the responses the oracle may give to a fix request: every row corrected,
\* the last row left out, or one row too many
FixResponses(rows) ==
  LET fixed == [k \in 1..Len(rows) |-> FixedRow(rows[k])]
  IN {EmptyResponse, GarbageResponse,
      JsonResponse(fixed),
      JsonResponse(SubSeq(fixed, 1, Len(fixed) - 1)),
      JsonResponse(Append(fixed, FixedRow(rows[1])))}

sBad == <<"b","a","d">>
sQuotaCap == <<"Q","u","o","t","a"," ","h","i","t">>
sRetry53 == <<"P","l","e","a","s","e"," ","r","e","t","r","y"," ","i","n"," ",
              "5","3",".","7","5","9","s",".">>
sRetry130 == <<"r","e","t","r","y"," ","i","n"," ","1","3","0","s">>
sTypeRetryInfo == <<"g","o","o","g","l","e",".","r","p","c",".",
                    "R","e","t","r","y","I","n","f","o">>
sTypeHelp == <<"g","o","o","g","l","e",".","r","p","c",".","H","e","l","p">>
s200s == <<"2","0","0","s">>
s7s == <<"7","s">>
sModelOverloaded == <<"m","o","d","e","l"," ","i","s"," ",
                      "o","v","e","r","l","o","a","d","e","d">>
sModelOverloadedCap == <<"M","o","d","e","l"," ",
                         "O","v","e","r","l","o","a","d","e","d">>
sFetch == <<"f","e","t","c","h"," ","f","a","i","l","e","d">>
sSyntax == <<"U","n","e","x","p","e","c","t","e","d"," ","t","o","k","e","n">>
sNoResponse == <<"N","o"," ","r","e","s","p","o","n","s","e"," ",
                 "f","r","o","m"," ","A","I">>
sMissingKey == <<"A","P","I"," ","K","e","y"," ","i","s"," ",
                 "m","i","s","s","i","n","g">>

E429 == [BlankError EXCEPT !.name = "E429", !.ecode = Num(429)]
E503 == [BlankError EXCEPT !.name = "E503", !.status = Num(503)]
E500 == [BlankError EXCEPT !.name = "E500", !.status = Num(500)]
E400 == [BlankError EXCEPT !.name = "E400", !.code = Num(400), !.message = sBad]
E400Quota == [BlankError EXCEPT !.name = "E400Quota", !.ecode = Num(400),
                                !.emessage = sQuotaCap]
EUnavailable == [BlankError EXCEPT !.name = "EUnavailable",
                                   !.code = Str("UNAVAILABLE")]
EExhausted == [BlankError EXCEPT !.name = "EExhausted",
                                 !.status = Str("RESOURCE_EXHAUSTED")]
EOverloaded == [BlankError EXCEPT !.name = "EOverloaded",
                                  !.rstatusText = sOverloadedCap]
E429Info == [BlankError EXCEPT !.name = "E429Info", !.ecode = Num(429),
               !.edetails = Details(<<[type |-> sTypeHelp, retryDelay |-> <<>>],
                                      [type |-> sTypeRetryInfo, retryDelay |-> s200s]>>)]
E429Msg == [BlankError EXCEPT !.name = "E429Msg", !.code = Num(429),
                              !.message = sRetry53]
E429Both == [BlankError EXCEPT !.name = "E429Both", !.ecode = Num(429),
               !.emessage = sRetry130,
               !.details = Details(<<[type |-> sTypeRetryInfo, retryDelay |-> s7s]>>)]
ENetwork == [BlankError EXCEPT !.name = "ENetwork", !.message = sFetch]
EOverloadedMsg == [BlankError EXCEPT !.name = "EOverloadedMsg",
                                     !.message = sModelOverloaded]
EOverloadedMsgCap == [BlankError EXCEPT !.name = "EOverloadedMsgCap",
                                        !.message = sModelOverloadedCap]

\* the failures the oracle request may raise
OracleErrors ==
  {E429, E503, E500, E400, E400Quota, EUnavailable, EExhausted, EOverloaded,
   E429Info, E429Msg, E429Both, ENetwork, EOverloadedMsg, EOverloadedMsgCap}

\* the SyntaxError of JSON.parse
SyntaxError == [BlankError EXCEPT !.name = "SyntaxError", !.message = sSyntax]

\* new Error("No response from AI")
NoResponseError == [BlankError EXCEPT !.name = "NoResponse", !.message = sNoResponse]

\* new Error("API Key is missing")
MissingKeyError == [BlankError EXCEPT !.name = "MissingKey", !.message = sMissingKey]

\* Math.random() * 0.5, in percent of baseDelay
Jitters == {0, 25, 49}

(***************************************************************************)
(* State                                                                   *)
(***************************************************************************)
VARIABLES
  op,          \* the core operation in progress: "none", "generate", "fix",
               \* "analyze"
  pc,          \* where it is suspended: "idle", "inflight" (awaiting the
               \* oracle), "backoff" (await wait(delay)), "pacing"
               \* (await wait(2000)), "resolved", "rejected"
  template,    \* the template argument
  fixInput,    \* the rows argument of fixDataRows
  config,      \* the config argument
  currentRows, \* the currentRows argument of generateTableData
  apiKey,      \* whether process.env.API_KEY is set: for the App, as it was
               \* built; for a core call taken alone, for that call
  batches,     \* generateTableData: batches
  i,           \* generateTableData: loop index
  allRows,     \* generateTableData: accumulator
  retries,     \* retryWithBackoff: retries of the current frame
  baseDelay,   \* retryWithBackoff: baseDelay of the current frame
  delay,       \* the duration of the pending wait, 0 when none
  inflight,    \* oracle requests issued and not yet answered
  error,       \* retryWithBackoff: the failure caught by the current frame
  thrown,      \* the failure the operation rejected with
  result,      \* the rows the operation resolved with
  invocations, \* history: operation() calls of the current retryWithBackoff call
  backoffs,    \* history: backoff waits completed in that call
  requests,    \* history: oracle requests issued by the core operation
  pacings,     \* history: pacing waits started by the core operation
  progress,    \* history: the messages passed to onProgress
  requested,   \* history: currentBatchSize of every batch started
  decoded,     \* history: the rows decoded from every batch answered
  failedAt,    \* history: the batch whose request failed for good, or -1
  lastFailure, \* history: the failure raised by the latest request, if it
               \* failed and no request was issued since
  respText     \* history: the text of the latest oracle response, "none"
               \* before the first and once the next request is issued

\* The state of the App component (src/App.tsx) and of the core calls its
\* handlers have started and not yet seen settle.
VARIABLES
  activeTemplate,  \* useState: the id of the active template
  tableData,       \* useState: the rows shown; a slot may be a hole
  isGenerating,    \* useState
  loadingMessage,  \* useState
  customTemplates, \* useState: the ids of the uploaded sheets
  effectPending,   \* the effect on [activeTemplate] is scheduled: a render
                   \* committed a new activeTemplate and the effect has not run
  pending,         \* the handlers suspended at an await or at a FileReader
  nextId,          \* the number the next custom template id is made of
  settled          \* history: the handler that settled in the latest step
                   \* (an effect it scheduled may have run since), how, the
                   \* categories of the alerts it showed and, for an upload,
                   \* the template and rows it committed

appVars == <<activeTemplate, tableData, isGenerating, loadingMessage,
             customTemplates, effectPending, pending, nextId, settled>>

retryVars == <<retries, baseDelay, error, invocations, backoffs>>
histVars == <<pacings, progress, requested, decoded, failedAt>>
inputVars == <<template, fixInput, config, currentRows, apiKey>>
vars == <<op, pc, template, fixInput, config, currentRows, apiKey, batches, i,
          allRows, retries, baseDelay,
          delay, inflight, error, thrown, result, invocations, backoffs,
          requests, pacings, progress, requested, decoded, failedAt,
          lastFailure, respText>>

Init ==
  /\ op = "none"
  /\ pc = "idle"
  /\ template = NoTemplate
  /\ fixInput = <<>>
  /\ config = NoConfig
  /\ currentRows = <<>>
  /\ apiKey \in BOOLEAN
  /\ batches = 0
  /\ i = 0
  /\ allRows = <<>>
  /\ retries = DefaultRetries
  /\ baseDelay = DefaultBaseDelay
  /\ delay = 0
  /\ inflight = 0
  /\ error = NoError
  /\ thrown = NoError
  /\ result = <<>>
  /\ invocations = 0
  /\ backoffs = 0
  /\ requests = 0
  /\ pacings = 0
  /\ progress = <<>>
  /\ requested = <<>>
  /\ decoded = <<>>
  /\ failedAt = -1
  /\ lastFailure = NoError
  /\ respText = "none"
  /\ activeTemplate = "P-01-R1-Pool"
  /\ tableData = <<>>
  /\ isGenerating = FALSE
  /\ loadingMessage = [text |-> "", n |-> 0]
  /\ customTemplates = <<>>
  /\ effectPending = FALSE
  /\ pending = <<>>
  /\ nextId = 1
  /\ settled = [handler |-> "none", ok |-> TRUE, alerts |-> <<>>,
                tpl |-> "", rows |-> <<>>]

(***************************************************************************)
(* retryWithBackoff                                                        *)
(***************************************************************************)
\* retryWithBackoff entered with the budget the previous call was left with
CallRetryWithBackoff_SharedBudget(infl) ==
  /\ retries' = retries
  /\ baseDelay' = baseDelay
  /\ error' = NoError
  /\ invocations' = 1
  /\ backoffs' = 0
  /\ inflight' = infl + 1
  /\ requests' = requests + 1
  /\ pc' = "inflight"
  /\ delay' = 0

\* retryWithBackoff(operation) entered with the default arguments: the
\* operation is invoked, which issues the oracle request, and awaited
CallRetryWithBackoff(infl) ==
  /\ retries' = DefaultRetries
  /\ baseDelay' = DefaultBaseDelay
  /\ error' = NoError
  /\ invocations' = 1
  /\ backoffs' = 0
  /\ inflight' = infl + 1
  /\ requests' = requests + 1
  /\ pc' = "inflight"
  /\ delay' = 0

\* the retry issued from the catch block without awaiting wait(delay)
ScheduleRetry_NoAwait(err, jitterPct) ==
  /\ retries' = retries - 1
  /\ baseDelay' = NextBaseDelay(baseDelay, DefaultMaxDelay)
  /\ error' = err
  /\ invocations' = invocations + 1
  /\ inflight' = inflight
  /\ requests' = requests + 1
  /\ pc' = "inflight"
  /\ delay' = 0
  /\ UNCHANGED <<backoffs, thrown, result, i, allRows, histVars>>

\* the catch block decided to retry: await wait(delay)
ScheduleRetry(err, jitterPct) ==
  /\ pc' = "backoff"
  /\ delay' = RetryDelay(err, baseDelay, jitterPct, DefaultMaxDelay)
  /\ error' = err
  /\ inflight' = inflight - 1
  /\ UNCHANGED <<retries, baseDelay, invocations, backoffs, requests,
                 thrown, result, i, allRows, histVars>>

\* the failure replaced by a new Error carrying only its message
Reject_Wrapped(err) ==
  /\ pc' = "rejected"
  /\ thrown' = [BlankError EXCEPT !.name = "wrapped", !.message = ErrorMessage(err)]
  /\ result' = <<>>
  /\ delay' = 0

\* the operation rejects with err
Reject(err) ==
  /\ pc' = "rejected"
  /\ thrown' = err
  /\ result' = <<>>
  /\ delay' = 0

(***************************************************************************)
(* generateTableData                                                       *)
(***************************************************************************)
\* Math.min(BATCH_SIZE, totalRows - allRows.length)
CurrentBatchSize(totalRows, rows) == Min(BATCH_SIZE, totalRows - Len(rows))

\* (i * BATCH_SIZE) + 1
StartDay(b) == (b * BATCH_SIZE) + 1

\* the batch put in front of the accumulator
Accumulate_Prepend(rows, batchData) == batchData \o rows

\* allRows = [...allRows, ...batchData]
Accumulate(rows, batchData) == rows \o batchData

\* the pacing wait taken before every batch, the first included
NeedsPacing_Always(b) == TRUE

\* if (i > 0) await wait(2000)
NeedsPacing(b) == b > 0

\* the notification numbered from zero
ProgressMessage_ZeroBased(b, nb) == <<b, nb>>

\* onProgress(`Generating batch ${i + 1} of ${batches}...`): the two numbers
\* of the message
ProgressMessage(b, nb) == <<b + 1, nb>>

\* The loop from the test i < batches of iteration b, entered with the
\* accumulator rows, up to the next await or to the return; infl is the number
\* of requests in flight.
LoopIteration(b, rows, nb, totalRows, infl) ==
  /\ i' = b
  /\ allRows' = rows
  /\ thrown' = thrown
  /\ IF b < nb
       THEN /\ requested' = Append(requested, CurrentBatchSize(totalRows, rows))
            /\ progress' = Append(progress, ProgressMessage(b, nb))
            /\ result' = result
            /\ IF NeedsPacing(b)
                 THEN /\ pc' = "pacing"
                      /\ delay' = PacingDelay
                      /\ pacings' = pacings + 1
                      /\ inflight' = infl
                      /\ UNCHANGED <<retryVars, requests>>
                 ELSE /\ CallRetryWithBackoff(infl)
                      /\ pacings' = pacings
       ELSE /\ pc' = "resolved"
            /\ result' = rows
            /\ delay' = 0
            /\ inflight' = infl
            /\ UNCHANGED <<retryVars, requests, requested, progress, pacings>>

\* the failure swallowed by the catch block: the loop goes on
BatchCatch_Swallow(err) ==
  /\ LoopIteration(i + 1, allRows, batches, template.defaultRows, inflight - 1)
  /\ decoded' = Append(decoded, <<>>)

\* catch (error) { console.error(...); throw error; }
BatchCatch(err) ==
  /\ Reject(err)
  /\ inflight' = inflight - 1
  /\ UNCHANGED <<i, allRows, retryVars, requests, pacings, progress,
                 requested, decoded>>

\* getClient never throws
GetClientThrows_Never(hasKey) == FALSE

\* getClient: if (!apiKey) throw new Error("API Key is missing")
GetClientThrows(hasKey) == ~hasKey

\* generateTableData(template, config, currentRows, onProgress) is called
StartGenerate ==
  /\ UNCHANGED appVars
  /\ pc = "idle"
  /\ \E n \in TotalRowsChoices, cfg \in Configs, cur \in CurrentRowsChoices,
        hasKey \in BOOLEAN :
       /\ op' = "generate"
       /\ template' = Template(n)
       /\ config' = cfg
       /\ currentRows' = cur
       /\ apiKey' = hasKey
       /\ UNCHANGED <<fixInput, decoded, failedAt, lastFailure, respText>>
       /\ IF GetClientThrows(hasKey)
            THEN /\ Reject(MissingKeyError)
                 /\ UNCHANGED <<batches, i, allRows, retryVars, inflight,
                                requests, pacings, progress, requested>>
            ELSE /\ batches' = Ceil(n, BATCH_SIZE)
                 /\ LoopIteration(0, <<>>, Ceil(n, BATCH_SIZE), n, inflight)

\* the oracle answers the request of batch i
GenerateResponse ==
  /\ UNCHANGED appVars
  /\ pc = "inflight"
  /\ op = "generate"
  /\ \E resp \in GenerateResponses(StartDay(i), requested[Len(requested)],
                                   template.columns) :
       /\ UNCHANGED <<op, inputVars, batches, failedAt, lastFailure>>
       /\ respText' = resp.text
       /\ CASE ~HasText(resp.text) ->
                 /\ decoded' = Append(decoded, <<>>)
                 /\ LoopIteration(i + 1, allRows, batches,
                                  template.defaultRows, inflight - 1)
            [] HasText(resp.text) /\ ~Parses(resp.text) ->
                 BatchCatch(SyntaxError)
            [] HasText(resp.text) /\ Parses(resp.text) ->
                 /\ decoded' = Append(decoded, resp.rows)
                 /\ LoopIteration(i + 1, Accumulate(allRows, resp.rows), batches,
                                  template.defaultRows, inflight - 1)

\* the pacing wait between two batches is over: the request of batch i is issued
PacingElapsed ==
  /\ UNCHANGED appVars
  /\ pc = "pacing"
  /\ CallRetryWithBackoff(inflight)
  /\ respText' = "none"
  /\ UNCHANGED <<op, inputVars, batches, i, allRows, thrown, result,
                 histVars, lastFailure>>

(***************************************************************************)
(* fixDataRows                                                             *)
(***************************************************************************)
\* fixDataRows(rows, template) is called
StartFix ==
  /\ UNCHANGED appVars
  /\ pc = "idle"
  /\ \E rows \in FixInputs, hasKey \in BOOLEAN :
       /\ op' = "fix"
       /\ template' = Template(Len(rows))
       /\ fixInput' = rows
       /\ apiKey' = hasKey
       /\ UNCHANGED <<config, currentRows, batches, i, allRows, histVars,
                      lastFailure, respText>>
       /\ IF GetClientThrows(hasKey)
            THEN /\ Reject(MissingKeyError)
                 /\ UNCHANGED <<retryVars, inflight, requests>>
            ELSE /\ CallRetryWithBackoff(inflight)
                 /\ UNCHANGED <<thrown, result>>

\* the corrected rows written into the rows argument
RowsAfterFix_InPlace(rows, fixed) ==
  [k \in 1..Len(rows) |-> IF k <= Len(fixed) THEN fixed[k] ELSE rows[k]]

\* the rows argument once the response has been handled: fixDataRows only
\* serialises it (JSON.stringify(rows)) and returns it or the parsed rows
RowsAfterFix(rows, fixed) == rows

\* the oracle answers the fix request
FixResponse ==
  /\ UNCHANGED appVars
  /\ pc = "inflight"
  /\ op = "fix"
  /\ \E resp \in FixResponses(fixInput) :
       /\ inflight' = inflight - 1
       /\ fixInput' = RowsAfterFix(fixInput, resp.rows)
       /\ UNCHANGED <<op, template, config, currentRows, apiKey, batches, i,
                      allRows, retryVars, requests, histVars, lastFailure>>
       /\ respText' = resp.text
       /\ CASE HasText(resp.text) /\ Parses(resp.text) ->
                 /\ pc' = "resolved"
                 /\ result' = resp.rows
                 /\ UNCHANGED <<thrown, delay>>
            [] ~HasText(resp.text) ->
                 /\ pc' = "resolved"
                 /\ result' = fixInput
                 /\ UNCHANGED <<thrown, delay>>
            [] HasText(resp.text) /\ ~Parses(resp.text) ->
                 Reject(SyntaxError)

(***************************************************************************)
(* analyzeFileAndGenerate                                                  *)
(***************************************************************************)
\* analyzeFileAndGenerate(fileBase64, mimeType, config) is called
StartAnalyze ==
  /\ UNCHANGED appVars
  /\ pc = "idle"
  /\ \E cfg \in Configs, hasKey \in BOOLEAN :
       /\ op' = "analyze"
       /\ config' = cfg
       /\ apiKey' = hasKey
       /\ UNCHANGED <<template, fixInput, currentRows, batches, i, allRows,
                      histVars, lastFailure, respText>>
       /\ IF GetClientThrows(hasKey)
            THEN /\ Reject(MissingKeyError)
                 /\ UNCHANGED <<retryVars, inflight, requests>>
            ELSE /\ CallRetryWithBackoff(inflight)
                 /\ UNCHANGED <<thrown, result>>

\* the oracle answers the analysis request
AnalyzeResponse ==
  /\ UNCHANGED appVars
  /\ pc = "inflight"
  /\ op = "analyze"
  /\ \E resp \in AnalyzeResponses :
       /\ inflight' = inflight - 1
       /\ UNCHANGED <<op, inputVars, batches, i, allRows, retryVars,
                      requests, histVars, lastFailure>>
       /\ respText' = resp.text
       /\ CASE ~HasText(resp.text) ->
                 Reject(NoResponseError)
            [] HasText(resp.text) /\ ~Parses(resp.text) ->
                 Reject(SyntaxError)
            [] HasText(resp.text) /\ Parses(resp.text) ->
                 /\ pc' = "resolved"
                 /\ result' = resp.rows
                 /\ UNCHANGED <<thrown, delay>>

(***************************************************************************)
(* Steps shared by the operations                                          *)
(***************************************************************************)
\* the oracle request fails: the catch block of retryWithBackoff
RequestFails ==
  /\ UNCHANGED appVars
  /\ pc = "inflight"
  /\ \E err \in OracleErrors, jitterPct \in Jitters :
       /\ UNCHANGED <<op, inputVars, batches, respText>>
       /\ lastFailure' = err
       /\ IF ShouldRetry(retries, err)
            THEN ScheduleRetry(err, jitterPct)
            ELSE IF op = "generate"
                   THEN /\ failedAt' = i
                        /\ BatchCatch(err)
                   ELSE /\ Reject(err)
                        /\ inflight' = inflight - 1
                        /\ UNCHANGED <<i, allRows, retryVars, requests,
                                       histVars>>

\* the backoff wait is over: retryWithBackoff(operation, retries - 1, ...)
BackoffElapsed ==
  /\ UNCHANGED appVars
  /\ pc = "backoff"
  /\ retries' = retries - 1
  /\ baseDelay' = NextBaseDelay(baseDelay, DefaultMaxDelay)
  /\ error' = NoError
  /\ invocations' = invocations + 1
  /\ backoffs' = backoffs + 1
  /\ inflight' = inflight + 1
  /\ requests' = requests + 1
  /\ pc' = "inflight"
  /\ delay' = 0
  /\ lastFailure' = NoError
  /\ UNCHANGED <<op, inputVars, batches, i, allRows, thrown, result,
                 histVars, respText>>

\* the caller has received the outcome; the next call starts afresh
Return ==
  /\ UNCHANGED appVars
  /\ pc \in {"resolved", "rejected"}
  /\ op' = "none"
  /\ pc' = "idle"
  /\ template' = NoTemplate
  /\ fixInput' = <<>>
  /\ config' = NoConfig
  /\ currentRows' = <<>>
  /\ apiKey' = TRUE
  /\ batches' = 0
  /\ i' = 0
  /\ allRows' = <<>>
  /\ retries' = DefaultRetries
  /\ baseDelay' = DefaultBaseDelay
  /\ delay' = 0
  /\ inflight' = 0
  /\ error' = NoError
  /\ thrown' = NoError
  /\ result' = <<>>
  /\ invocations' = 0
  /\ backoffs' = 0
  /\ requests' = 0
  /\ pacings' = 0
  /\ progress' = <<>>
  /\ requested' = <<>>
  /\ decoded' = <<>>
  /\ failedAt' = -1
  /\ lastFailure' = NoError
  /\ respText' = "none"

Next ==
  \/ StartGenerate
  \/ GenerateResponse
  \/ PacingElapsed
  \/ StartFix
  \/ FixResponse
  \/ StartAnalyze
  \/ AnalyzeResponse
  \/ RequestFails
  \/ BackoffElapsed
  \/ Return

Spec == Init /\ [][Next]_vars

(***************************************************************************)
(* The App component (src/App.tsx).  One action is one handler, or the     *)
(* part of an async handler between two awaits.  React applies the state   *)
(* updates of such a part together and then runs the effects whose         *)
(* dependencies changed, before any other handler runs.  A core call       *)
(* (generateTableData, fixDataRows, analyzeFileAndGenerate) is seen from   *)
(* here by its outcome only: it resolves with rows or rejects with a       *)
(* failure.  The templates used here fit in one batch.  The handlers that  *)
(* rewrite rows of the table in place (handleDataChange, handleBulkUpdate, *)
(* handleDeleteRows) and those that do not touch the state below (theme,   *)
(* view, configuration, export) are left out.                              *)
(***************************************************************************)
\* TEMPLATES, by id; TEMPLATES[0] comes first
BuiltinTemplates == <<"P-01-R1-Pool", "P-01-R2">>

\* id: 'custom-' + Date.now()
CustomId(k) == "custom-" \o ToString(k)

\* the column keys of a template; an uploaded sheet gets the inferred ones
TemplateColumns(id) ==
  CASE id = "P-01-R1-Pool" -> Columns
    [] id = "P-01-R2" -> <<"pool_name", "general_revision", "by_whom">>
    [] OTHER -> <<"col_1", "col_2">>

\* the templates the sidebar offers
OfferedTemplates ==
  {BuiltinTemplates[k] : k \in 1..Len(BuiltinTemplates)}
  \cup {customTemplates[k] : k \in 1..Len(customTemplates)}

\* a loading message: its text and the number it embeds
Msg(text, n) == [text |-> text, n |-> n]
NoMsg == Msg("", 0)

\* an array slot that holds no row (undefined)
Hole == [day |-> 0, keys |-> {}, val |-> "hole"]

\* Boolean(row)
IsRow(r) == r # Hole

\* how many rows a core call may resolve with
AppRowCounts == {0, MaxAppRows}

\* a suspended handler: what it awaits, the activeTemplate and the indices it
\* captured and the rows it sent
PendingOp(kind, tpl, indices, sent) ==
  [kind |-> kind, tpl |-> tpl, indices |-> indices, sent |-> sent]

RemoveAt(q, k) == SubSeq(q, 1, k - 1) \o SubSeq(q, k + 1, Len(q))

\* the selections of rows of the table: indices (from 0) of slots holding a
\* row, in increasing order
Selections(data) ==
  {q \in UNION {[1..m -> 0..(Len(data) - 1)] : m \in 1..Len(data)} :
     /\ \A j \in 1..(Len(q) - 1) : q[j] < q[j + 1]
     /\ \A j \in 1..Len(q) : IsRow(data[q[j] + 1])}

sApiKey == <<"A","P","I"," ","k","e","y">>
sComma == <<",">>

\* code === k
StrictEqNum(v, k) == v.t = "num" /\ v.n = k

RECURSIVE DetailsText(_)
DetailsText(items) ==
  IF items = <<>> THEN <<>>
  ELSE items[1].type \o sComma \o items[1].retryDelay \o sComma
       \o DetailsText(Tail(items))

\* JSON.stringify(error), by the texts of the failure it contains
StringifyError(e) ==
  e.statusText \o sComma \o e.rstatusText \o sComma
  \o DetailsText(e.edetails.items) \o DetailsText(e.details.items)

\* error?.message || error?.error?.message || JSON.stringify(error)
ApiErrorMessage(e) ==
  OrElseStr(e.message, OrElseStr(e.emessage, StringifyError(e)))

\* error?.status || error?.error?.code
ApiErrorCode(e) == OrElse(e.status, e.ecode)

\* handleApiError: the category of the alert shown
HandleApiError(e) ==
  LET msg == ApiErrorMessage(e)
      code == ApiErrorCode(e)
  IN IF StrictEqNum(code, 429) \/ Includes(ToLowerCase(msg), sQuota)
       THEN "quota"
     ELSE IF Includes(msg, sApiKey) \/ StrictEqNum(code, 400)
       THEN "auth"
     ELSE IF StrictEqNum(code, 503)
       THEN "overload"
     ELSE "generic"

\* a property read on undefined, e.g. result.template.name
TypeError == [BlankError EXCEPT !.name = "TypeError", !.message = sSyntax]

\* the alerts for the failures generateTableData and fixDataRows may reject
\* with once a request was issued
CallAlerts == {HandleApiError(err) : err \in OracleErrors \cup {SyntaxError}}

\* the alerts for the failures the try block of the upload handler may raise
UploadAlerts ==
  {HandleApiError(err) :
     err \in OracleErrors \cup {SyntaxError, NoResponseError, TypeError}}

\* the rows fixDataRows may resolve with for the rows sent
FixResults(sent) ==
  {IF HasText(resp.text) THEN resp.rows ELSE sent :
     resp \in {r \in FixResponses(sent) : ~HasText(r.text) \/ Parses(r.text)}}

\* newData[idx] = v on a JavaScript array: writing past the end extends the
\* array and leaves holes
ArraySet(arr, idx, v) ==
  IF idx < Len(arr) THEN [arr EXCEPT ![idx + 1] = v]
  ELSE arr \o [j \in 1..(idx - Len(arr)) |-> Hole] \o <<v>>

\* indices.forEach((originalIndex, i) => { if (fixedRows[i])
\*   newData[originalIndex] = fixedRows[i]; }), from position j on
RECURSIVE MergeFrom(_, _, _, _)
MergeFrom(newData, indices, fixedRows, j) ==
  IF j > Len(indices) THEN newData
  ELSE MergeFrom(IF j <= Len(fixedRows) /\ IsRow(fixedRows[j])
                   THEN ArraySet(newData, indices[j], fixedRows[j])
                   ELSE newData,
                 indices, fixedRows, j + 1)

\* the updater passed to setTableData by handleAutoFix
MergeFixed(prev, indices, fixedRows) == MergeFrom(prev, indices, fixedRows, 1)

\* the finally block that forgets the flag
Finally_KeepsFlag(flag) ==
  /\ isGenerating' = flag
  /\ loadingMessage' = NoMsg

\* finally { setIsGenerating(false); setLoadingMessage(''); }; flag is the
\* value of isGenerating when the block is entered
Finally(flag) ==
  /\ isGenerating' = FALSE
  /\ loadingMessage' = NoMsg

\* the history kept of the handler that settles in a step
Settles(handler, ok, alerts, tpl, rows) ==
  settled' = [handler |-> handler, ok |-> ok, alerts |-> alerts,
              tpl |-> tpl, rows |-> rows]

NoneSettles == Settles("none", TRUE, <<>>, "", <<>>)

\* handleGenerate up to its await.  generateTableData runs up to its first
\* await, which includes the first progress notification; if getClient throws
\* the call is rejected at once and the handler runs to its end before any
\* other handler.
HandleGenerate ==
  /\ ~effectPending
  /\ ~isGenerating
  /\ Len(pending) < MaxPending
  /\ IF GetClientThrows(apiKey)
       THEN /\ Settles("generate", FALSE, <<HandleApiError(MissingKeyError)>>,
                       "", <<>>)
            /\ Finally(TRUE)
            /\ pending' = pending
       ELSE /\ pending' = Append(pending,
                                 PendingOp("generate", activeTemplate, <<>>, <<>>))
            /\ isGenerating' = TRUE
            /\ loadingMessage' = Msg("Generating batch", 1)
            /\ NoneSettles
  /\ UNCHANGED <<activeTemplate, tableData, customTemplates, effectPending, nextId>>
  /\ UNCHANGED vars

\* handleGenerate resumed with the rows: setTableData(rows), then finally
HandleGenerateThen ==
  /\ ~effectPending
  /\ \E k \in 1..Len(pending), n \in AppRowCounts :
       /\ pending[k].kind = "generate"
       /\ tableData' = OracleRows(1, n, KeySet(TemplateColumns(pending[k].tpl)))
       /\ pending' = RemoveAt(pending, k)
  /\ Finally(isGenerating)
  /\ Settles("generate", TRUE, <<>>, "", <<>>)
  /\ UNCHANGED <<activeTemplate, customTemplates, effectPending, nextId>>
  /\ UNCHANGED vars

\* handleGenerate resumed with a failure: handleApiError(error), then finally
HandleGenerateCatch ==
  /\ ~effectPending
  /\ \E k \in 1..Len(pending), alert \in CallAlerts :
       /\ pending[k].kind = "generate"
       /\ Settles("generate", FALSE, <<alert>>, "", <<>>)
       /\ pending' = RemoveAt(pending, k)
  /\ Finally(isGenerating)
  /\ UNCHANGED <<activeTemplate, tableData, customTemplates, effectPending, nextId>>
  /\ UNCHANGED vars

\* handleAutoFix(indices) up to its await; the button shows once rows are
\* selected and is disabled while isGenerating
HandleAutoFix ==
  /\ ~effectPending
  /\ ~isGenerating
  /\ Len(pending) < MaxPending
  /\ \E indices \in Selections(tableData) :
       LET rowsToFix ==
             SelectSeq([j \in 1..Len(indices) |-> tableData[indices[j] + 1]], IsRow)
       IN IF GetClientThrows(apiKey)
            THEN /\ Settles("fix", FALSE, <<HandleApiError(MissingKeyError)>>,
                            "", <<>>)
                 /\ Finally(TRUE)
                 /\ pending' = pending
            ELSE /\ pending' = Append(pending,
                                      PendingOp("fix", "", indices, rowsToFix))
                 /\ isGenerating' = TRUE
                 /\ loadingMessage' = Msg("Analyzing rows", Len(indices))
                 /\ NoneSettles
  /\ UNCHANGED <<activeTemplate, tableData, customTemplates, effectPending, nextId>>
  /\ UNCHANGED vars

\* handleAutoFix resumed with the corrected rows: the merge, then finally
HandleAutoFixThen ==
  /\ ~effectPending
  /\ \E k \in 1..Len(pending) :
       /\ pending[k].kind = "fix"
       /\ \E fixedRows \in FixResults(pending[k].sent) :
            tableData' = MergeFixed(tableData, pending[k].indices, fixedRows)
       /\ pending' = RemoveAt(pending, k)
  /\ Finally(isGenerating)
  /\ Settles("fix", TRUE, <<>>, "", <<>>)
  /\ UNCHANGED <<activeTemplate, customTemplates, effectPending, nextId>>
  /\ UNCHANGED vars

\* handleAutoFix resumed with a failure
HandleAutoFixCatch ==
  /\ ~effectPending
  /\ \E k \in 1..Len(pending), alert \in CallAlerts :
       /\ pending[k].kind = "fix"
       /\ Settles("fix", FALSE, <<alert>>, "", <<>>)
       /\ pending' = RemoveAt(pending, k)
  /\ Finally(isGenerating)
  /\ UNCHANGED <<activeTemplate, tableData, customTemplates, effectPending, nextId>>
  /\ UNCHANGED vars

\* handleFileUpload: a file was chosen, reader.readAsDataURL(file) is started
HandleFileUpload ==
  /\ ~effectPending
  /\ Len(pending) < MaxPending
  /\ nextId + Len(SelectSeq(pending, LAMBDA o : o.kind \in {"read", "analyze"}))
       <= MaxCustom
  /\ pending' = Append(pending, PendingOp("read", "", <<>>, <<>>))
  /\ NoneSettles
  /\ UNCHANGED <<activeTemplate, tableData, isGenerating, loadingMessage,
                 customTemplates, effectPending, nextId>>
  /\ UNCHANGED vars

\* reader.onloadend up to its await; if getClient throws the handler runs to
\* its end at once
ReaderOnLoadEnd ==
  /\ ~effectPending
  /\ \E k \in 1..Len(pending) :
       /\ pending[k].kind = "read"
       /\ IF GetClientThrows(apiKey)
            THEN /\ Settles("upload", FALSE, <<HandleApiError(MissingKeyError)>>,
                            "", <<>>)
                 /\ Finally(TRUE)
                 /\ pending' = RemoveAt(pending, k)
            ELSE /\ pending' = [pending EXCEPT ![k].kind = "analyze"]
                 /\ isGenerating' = TRUE
                 /\ loadingMessage' = Msg("Analyzing document structure...", 0)
                 /\ NoneSettles
  /\ UNCHANGED <<activeTemplate, tableData, customTemplates, effectPending, nextId>>
  /\ UNCHANGED vars

\* reader.onloadend resumed with the analysis: the new template is added and
\* made active, its rows are put in the table, then finally
UploadThen ==
  /\ ~effectPending
  /\ \E k \in 1..Len(pending), n \in AppRowCounts :
       LET id == CustomId(nextId)
           rows == OracleRows(1, n, KeySet(TemplateColumns(id)))
       IN /\ pending[k].kind = "analyze"
          /\ customTemplates' = Append(customTemplates, id)
          /\ activeTemplate' = id
          /\ tableData' = rows
          /\ Settles("upload", TRUE, <<>>, id, rows)
          /\ pending' = RemoveAt(pending, k)
  /\ effectPending' = TRUE
  /\ nextId' = nextId + 1
  /\ Finally(isGenerating)
  /\ UNCHANGED vars

\* reader.onloadend resumed with a failure
UploadCatch ==
  /\ ~effectPending
  /\ \E k \in 1..Len(pending), alert \in UploadAlerts :
       /\ pending[k].kind = "analyze"
       /\ Settles("upload", FALSE, <<alert>>, "", <<>>)
       /\ pending' = RemoveAt(pending, k)
  /\ Finally(isGenerating)
  /\ UNCHANGED <<activeTemplate, tableData, customTemplates, effectPending, nextId>>
  /\ UNCHANGED vars

\* useEffect(() => { setTableData([]); }, [activeTemplate])
ActiveTemplateEffect ==
  /\ effectPending
  /\ tableData' = <<>>
  /\ effectPending' = FALSE
  /\ UNCHANGED <<activeTemplate, isGenerating, loadingMessage, customTemplates,
                 pending, nextId, settled>>
  /\ UNCHANGED vars

\* onClick={() => setActiveTemplate(t)} of a sidebar entry other than the
\* active one
SetActiveTemplate ==
  /\ ~effectPending
  /\ \E t \in OfferedTemplates \ {activeTemplate} :
       activeTemplate' = t
  /\ effectPending' = TRUE
  /\ NoneSettles
  /\ UNCHANGED <<tableData, isGenerating, loadingMessage, customTemplates,
                 pending, nextId>>
  /\ UNCHANGED vars

\* onClear={() => setTableData([])}
OnClear ==
  /\ ~effectPending
  /\ tableData' = <<>>
  /\ NoneSettles
  /\ UNCHANGED <<activeTemplate, isGenerating, loadingMessage, customTemplates,
                 effectPending, pending, nextId>>
  /\ UNCHANGED vars

\* handleDeleteCustomTemplate(e, id), confirmed
HandleDeleteCustomTemplate ==
  /\ ~effectPending
  /\ \E k \in 1..Len(customTemplates) :
       /\ customTemplates' = RemoveAt(customTemplates, k)
       /\ IF activeTemplate = customTemplates[k]
            THEN /\ activeTemplate' = BuiltinTemplates[1]
                 /\ effectPending' = TRUE
            ELSE UNCHANGED <<activeTemplate, effectPending>>
  /\ NoneSettles
  /\ UNCHANGED <<tableData, isGenerating, loadingMessage, pending, nextId>>
  /\ UNCHANGED vars

NextApp ==
  \/ HandleGenerate
  \/ HandleGenerateThen
  \/ HandleGenerateCatch
  \/ HandleAutoFix
  \/ HandleAutoFixThen
  \/ HandleAutoFixCatch
  \/ HandleFileUpload
  \/ ReaderOnLoadEnd
  \/ UploadThen
  \/ UploadCatch
  \/ ActiveTemplateEffect
  \/ SetActiveTemplate
  \/ OnClear
  \/ HandleDeleteCustomTemplate

SpecApp == Init /\ [][NextApp]_appVars

(***************************************************************************)
(* Properties                                                              *)
(***************************************************************************)
RECURSIVE Sum(_)
Sum(q) == IF q = <<>> THEN 0 ELSE q[1] + Sum(Tail(q))

RECURSIVE Flatten(_)
Flatten(qq) == IF qq = <<>> THEN <<>> ELSE qq[1] \o Flatten(Tail(qq))

GenerateResolved == op = "generate" /\ pc = "resolved"

\* C1: in every successful generation the row at position p (1-based) of the
\* returned array is the row of requested offset p, so the rows of batch b
\* begin at position b*40 + 1, whatever number of rows each batch returned.
C1_Ordering ==
  GenerateResolved => \A p \in 1..Len(result) : result[p].day = p

\* C2: a generation in which no request failed (one request per batch) issued
\* exactly ceil(totalRows/40) batches whose requested sizes sum to totalRows.
C2_BatchArithmetic ==
  (GenerateResolved /\ requests = Len(requested)) =>
    /\ Len(requested) = Ceil(template.defaultRows, BATCH_SIZE)
    /\ Sum(requested) = template.defaultRows

\* C3: once the request of batch k has failed for good, generateTableData is
\* rejected with that very failure and without rows, and from then on it
\* issues no oracle request, starts no pacing wait and notifies no progress.
C3_FailureAborts ==
  [][failedAt' # -1 =>
       /\ pc' = "rejected"
       /\ thrown' = lastFailure'
       /\ thrown' \in OracleErrors
       /\ result' = <<>>
       /\ (failedAt # -1 =>
             /\ requests' = requests
             /\ pacings' = pacings
             /\ progress' = progress)]_vars

\* a generation failed at its second batch after the retries of that batch were
\* used up, with rows of the first batch in the accumulator
C3_Witness ==
  /\ op = "generate"
  /\ pc = "rejected"
  /\ failedAt = 1
  /\ retries = 0
  /\ Len(allRows) > 0

\* C4: one retryWithBackoff call started with N = 5 retries invokes the
\* operation at most N + 1 times; the invocations made and the retries left
\* always add up to N + 1; and a failure of code 429 is propagated only after
\* exactly N + 1 invocations.
C4_BoundedAttempts ==
  /\ invocations <= DefaultRetries + 1
  /\ (pc \in {"inflight", "backoff"} => invocations + retries = DefaultRetries + 1)
  /\ ((pc = "rejected" /\ LooseEqNum(ErrorCode(thrown), 429)) =>
        invocations = DefaultRetries + 1 /\ retries = 0)

\* six invocations have failed, the last one with code 429
C4_Witness ==
  /\ pc = "rejected"
  /\ thrown = E429
  /\ invocations = DefaultRetries + 1

Is400(e) == LooseEqNum(ErrorCode(e), 400)

\* the failure carries none of the message or statusText markers
NoMarker(e) ==
  LET m == ErrorMessage(e)
  IN /\ ~Includes(ErrorStatusText(e), sOverloadedCap)
     /\ \A k \in 1..Len(m) :
          /\ ~MatchesAt(ToLowerCase(m), sQuota, k)
          /\ ~MatchesAt(m, sOverloaded, k)
          /\ ~MatchesAt(m, s429, k)

\* C5 as stated: after a failure whose code is 400 the call is rejected with
\* that failure at once: no wait is pending and no request is in flight.
C5_Code400NotRetried ==
  Is400(lastFailure) =>
    /\ pc = "rejected"
    /\ thrown = lastFailure
    /\ delay = 0
    /\ inflight = 0

\* C5 amended: after a failure whose code is 400 and which carries no quota,
\* overloaded or 429 marker in its message and no Overloaded statusText, the
\* call is rejected with that failure at once: no wait is pending and no
\* request is in flight.
C5_Plain400NotRetried ==
  (Is400(lastFailure) /\ NoMarker(lastFailure)) =>
    /\ pc = "rejected"
    /\ thrown = lastFailure
    /\ delay = 0
    /\ inflight = 0

\* the first invocation failed with a plain 400 and the call is rejected
C5_Witness ==
  /\ pc = "rejected"
  /\ lastFailure = E400
  /\ thrown = E400
  /\ invocations = 1
  /\ backoffs = 0

\* C6: when the oracle call of fixDataRows succeeded with an empty or
\* unparsable text, fixDataRows resolves with its input rows unchanged.
C6_FixFallback ==
  (op = "fix" /\ respText \in {"empty", "garbage"}) =>
    /\ pc = "resolved"
    /\ result = fixInput

\* C7: every wait before a retry lasts at most maxDelay.
C7_DelayClamped ==
  pc = "backoff" => delay <= DefaultMaxDelay

\* a wait is pending for a failure whose structured retry delay (200 s plus the
\* buffer) exceeds maxDelay
C7_Witness ==
  /\ pc = "backoff"
  /\ error = E429Info
  /\ StructuredDelay(error).some
  /\ StructuredDelay(error).ms > DefaultMaxDelay
  /\ delay = DefaultMaxDelay

\* C8: every row of a successful generation carries every column key.
C8_SchemaFidelity ==
  GenerateResolved =>
    \A p \in 1..Len(result) :
      \A k \in 1..Len(RequiredFields(template.columns)) :
        RequiredFields(template.columns)[k] \in result[p].keys

\* C9: the accumulator is at every moment the concatenation, in batch order,
\* of the row sequences decoded so far, and a successful generation returns it.
C9_Concatenation ==
  op = "generate" =>
    /\ allRows = Flatten(decoded)
    /\ (pc = "resolved" => result = Flatten(decoded))

\* a generation of three batches has resolved, the first two batches having
\* returned rows
C9_Witness ==
  /\ GenerateResolved
  /\ Len(decoded) = 3
  /\ Len(decoded[1]) > 0
  /\ Len(decoded[2]) > 0
  /\ Len(decoded[3]) > 0

\* C10: at most one oracle request is in flight, and only while the operation
\* is suspended on it; the request in flight is preceded by as many completed
\* backoff waits as it has failed predecessors in its retryWithBackoff call; and
\* the request of batch i is in flight only when the responses of the batches
\* 0..i-1 have been decoded and appended.
C10_Sequential ==
  /\ inflight \in {0, 1}
  /\ (inflight = 1 <=> pc = "inflight")
  /\ (pc = "inflight" =>
        /\ invocations = backoffs + 1
        /\ (op = "generate" => Len(decoded) = i /\ allRows = Flatten(decoded)))

\* the request of the second batch is in flight after one retry
C10_Witness ==
  /\ op = "generate"
  /\ pc = "inflight"
  /\ i = 1
  /\ backoffs = 1
  /\ invocations = 2

(***************************************************************************)
(* Properties of the retry engine and of the decoding, second part         *)
(***************************************************************************)
\* C11: when a request succeeds after k failed invocations of its
\* retryWithBackoff call, the operation has been invoked k + 1 times and k
\* backoff waits have been completed, one after each failure (a pending wait
\* follows invocation number backoffs + 1); the success ends the call: no
\* further invocation is made on it and no request stays in flight.
C11_SuccessAfterRetries ==
  [][/\ (respText = "none" /\ respText' # "none") =>
          /\ invocations = backoffs + 1
          /\ backoffs = DefaultRetries - retries
          /\ invocations' = invocations
          /\ backoffs' = backoffs
          /\ requests' = requests
     /\ respText' # "none" => inflight' = 0
     /\ pc' = "backoff" => (invocations' = backoffs' + 1 /\ inflight' = 0)]_vars

\* the fix request failed three times and then succeeded
C11_Witness ==
  /\ op = "fix"
  /\ pc = "resolved"
  /\ respText = "json"
  /\ result # fixInput
  /\ backoffs = 3
  /\ invocations = 4

\* C12 as stated: a batch whose response is empty or unparsable contributes no
\* rows, leaves the accumulator intact and lets the generation continue.
C12_DecodeTolerated ==
  [][(op = "generate" /\ respText = "none"
        /\ respText' \in {"empty", "garbage"}) =>
       /\ allRows' = allRows
       /\ i' = i + 1
       /\ pc' \in {"pacing", "resolved"}
       /\ (pc' = "resolved" => result' = allRows)]_vars

\* C12 amended: a batch whose response is empty contributes no rows, leaves
\* the accumulator intact and lets the generation continue.
C12_EmptyTolerated ==
  [][(op = "generate" /\ respText = "none" /\ respText' = "empty") =>
       /\ allRows' = allRows
       /\ i' = i + 1
       /\ pc' \in {"pacing", "resolved"}
       /\ (pc' = "resolved" => result' = allRows)]_vars

\* the second batch answered with an empty text, the rows of the first batch
\* are kept and the third batch is being started
C12_Witness ==
  /\ op = "generate"
  /\ respText = "empty"
  /\ pc = "pacing"
  /\ i = 2
  /\ Len(allRows) > 0
  /\ decoded[2] = <<>>

\* C13 as stated: in generation and in inference an empty or unparsable
\* response makes the call reject.
C13_DecodeSurfaced ==
  (op \in {"generate", "analyze"} /\ respText \in {"empty", "garbage"}) =>
    pc = "rejected"

\* C13 amended: an empty or unparsable response in inference, and an
\* unparsable response in generation, makes the call reject with the decode
\* failure; an empty response in generation does not.
C13_DecodeSurfacedExceptEmptyBatch ==
  /\ ((op = "analyze" /\ respText \in {"empty", "garbage"})
        \/ (op = "generate" /\ respText = "garbage")) =>
       /\ pc = "rejected"
       /\ thrown \in {SyntaxError, NoResponseError}
  /\ (op = "generate" /\ respText = "empty") => pc # "rejected"

\* an inference rejected because the response was empty
C13_Witness ==
  /\ op = "analyze"
  /\ respText = "empty"
  /\ pc = "rejected"
  /\ thrown = NoResponseError

\* C14: a successful fixDataRows returns as many rows as it was given.
C14_FixSameLength ==
  (op = "fix" /\ pc = "resolved") => Len(result) = Len(fixInput)

\* C15: a call made without API key is rejected with the missing-key error
\* before any request, progress notification, wait or retry.
C15_MissingKeyFailsFast ==
  (op # "none" /\ ~apiKey) =>
    /\ pc = "rejected"
    /\ thrown = MissingKeyError
    /\ requests = 0
    /\ invocations = 0
    /\ inflight = 0
    /\ backoffs = 0
    /\ pacings = 0
    /\ delay = 0
    /\ progress = <<>>

\* a generation called without API key
C15_Witness ==
  /\ op = "generate"
  /\ ~apiKey
  /\ pc = "rejected"
  /\ template.defaultRows = MaxTotalRows

\* C16: from the call to its outcome no step changes the template, the config,
\* the currentRows or the rows argument.
C16_InputsUnchanged ==
  [][(op # "none" /\ op' # "none") =>
       /\ template' = template
       /\ config' = config
       /\ currentRows' = currentRows
       /\ fixInput' = fixInput]_vars

\* a fix resolved with corrected rows while the rows argument holds the
\* uncorrected ones
C16_Witness ==
  /\ op = "fix"
  /\ pc = "resolved"
  /\ Len(result) = Len(fixInput)
  /\ Len(fixInput) > 0
  /\ \A k \in 1..Len(fixInput) :
       result[k].val = "fixed" /\ fixInput[k].val = "gen"

sOverload == <<"o","v","e","r","l","o","a","d">>

\* retriable as C17 describes it: by the carried code, or by an overload,
\* quota or 429 marker looked for without regard to letter case (the marker
\* is looked for in the message and in the status text)
RetriableIgnoringCase(e) ==
  LET code == ErrorCode(e)
      m == ToLowerCase(ErrorMessage(e))
      st == ToLowerCase(ErrorStatusText(e))
  IN \/ LooseEqNum(code, 503)
     \/ LooseEqNum(code, 429)
     \/ StrictEqStr(code, "UNAVAILABLE")
     \/ StrictEqStr(code, "RESOURCE_EXHAUSTED")
     \/ Includes(m, sOverload)
     \/ Includes(st, sOverload)
     \/ Includes(m, sQuota)
     \/ Includes(m, s429)

\* C17: a failure caught while attempts remain is retried (a backoff wait is
\* started) if and only if it is retriable in the sense above.
C17_CaseInsensitiveClassification ==
  (lastFailure # NoError /\ retries > 0 /\ pc \in {"backoff", "rejected"}) =>
    (pc = "backoff" <=> RetriableIgnoringCase(lastFailure))

\* C18: when the failure carries a structured retry delay, the wait is that
\* delay plus the buffer, capped, whatever the message says.
C18_StructuredDelayFirst ==
  (pc = "backoff" /\ StructuredDelay(error).some) =>
    delay = Min(StructuredDelay(error).ms, DefaultMaxDelay)

RECURSIVE Pow2(_)
Pow2(n) == IF n <= 0 THEN 1 ELSE 2 * Pow2(n - 1)

\* C19: after k - 1 completed backoff waits the base delay is
\* min(3000 * 2^(k-1), maxDelay) and 5 - (k - 1) retries are left, whatever
\* delays the earlier waits used; a wait for a failure without server-provided
\* delay lasts between the base delay and 1.5 times the base delay, and at
\* most maxDelay.
C19_ExponentialBase ==
  /\ pc \in {"inflight", "backoff"} =>
       /\ retries = DefaultRetries - backoffs
       /\ baseDelay = Min(DefaultBaseDelay * Pow2(backoffs), DefaultMaxDelay)
  /\ (pc = "backoff" /\ ~StructuredDelay(error).some /\ ~MessageDelay(error).some) =>
       /\ baseDelay <= delay
       /\ 2 * delay <= 3 * baseDelay
       /\ delay <= DefaultMaxDelay

\* the wait before the fifth retry, for a failure without server-provided delay
C19_Witness ==
  /\ pc = "backoff"
  /\ backoffs = 4
  /\ retries = 1
  /\ baseDelay = 48000
  /\ error = E503
  /\ delay = 60000

\* C20: a call rejected after a failed request is rejected with the very
\* failure that request raised.
C20_FailureUnchanged ==
  (pc = "rejected" /\ lastFailure # NoError) =>
    /\ thrown = lastFailure
    /\ thrown \in OracleErrors

\* an inference rejected with the 503 of its sixth request
C20_Witness ==
  /\ op = "analyze"
  /\ pc = "rejected"
  /\ retries = 0
  /\ invocations = DefaultRetries + 1
  /\ lastFailure = E503
  /\ thrown = E503

C22_Pacing ==
  /\ pc = "pacing" =>
       /\ op = "generate"
       /\ delay = PacingDelay
       /\ i > 0
       /\ Len(decoded) = i
       /\ allRows = Flatten(decoded)
       /\ inflight = 0
  /\ (op = "generate" /\ pc \in {"inflight", "backoff", "pacing"}) =>
       pacings = i

\* batch 1 being retried: one pacing wait so far, and a backoff wait
C22_Witness ==
  /\ op = "generate"
  /\ pc = "inflight"
  /\ i = 1
  /\ backoffs = 2
  /\ pacings = 1
  /\ Len(decoded) = 1

\* C23: the k-th progress notification carries k and the batch count; one
\* has been emitted for every batch started so far (the current one
\* included, before its pacing wait and its first request, and whatever the
\* number of retries), and a successful run has emitted ceil(totalRows / 40).
C23_Progress ==
  op = "generate" =>
    /\ \A k \in 1..Len(progress) :
         progress[k] = <<k, Ceil(template.defaultRows, BATCH_SIZE)>>
    /\ pc \in {"inflight", "backoff", "pacing"} => Len(progress) = i + 1
    /\ (pc = "rejected" /\ apiKey) => Len(progress) = i + 1
    /\ (pc = "rejected" /\ ~apiKey) => progress = <<>>
    /\ pc = "resolved" => Len(progress) = Ceil(template.defaultRows, BATCH_SIZE)

\* a run of three batches resolved after retries: three notifications
C23_Witness ==
  /\ op = "generate"
  /\ pc = "resolved"
  /\ requests > 4
  /\ progress = <<<<1, 3>>, <<2, 3>>, <<3, 3>>>>

\* C24: every batch started asked for between 1 and 40 rows.
C24_PositiveBatchSize ==
  \A k \in 1..Len(requested) :
    /\ 1 <= requested[k]
    /\ requested[k] <= BATCH_SIZE

(***************************************************************************)
(* Properties of the App component                                         *)
(***************************************************************************)
\* C25: once a successful upload has settled (the effect it scheduled has
\* run), the new custom template is active and tableData holds the rows the
\* inference returned.
C25_UploadKeepsRows ==
  (settled.handler = "upload" /\ settled.ok /\ ~effectPending) =>
    /\ activeTemplate = settled.tpl
    /\ tableData = settled.rows

\* C26: the rows handleGenerate has just committed carry the columns of the
\* template that is active.
C26_RowsOfActiveTemplate ==
  (settled.handler = "generate" /\ settled.ok) =>
    \A j \in 1..Len(tableData) :
      tableData[j].keys = KeySet(TemplateColumns(activeTemplate))

\* C27: the step in which handleAutoFix merges the corrected rows keeps the
\* length of tableData and the row of every index that was not selected, and
\* leaves no slot without a row.
C27_MergeKeepsShape ==
  [][\A k \in 1..Len(pending) :
       (/\ settled'.handler = "fix"
        /\ settled'.ok
        /\ pending[k].kind = "fix"
        /\ pending' = RemoveAt(pending, k)) =>
         /\ Len(tableData') = Len(tableData)
         /\ \A j \in 1..Len(tableData) :
              (\A m \in 1..Len(pending[k].indices) : pending[k].indices[m] # j - 1)
                => tableData'[j] = tableData[j]
         /\ \A j \in 1..Len(tableData') : IsRow(tableData'[j])]_appVars

\* C28: isGenerating is true whenever a handler is suspended on a core call.
C28_FlagCoversCalls ==
  (\E k \in 1..Len(pending) : pending[k].kind \in {"generate", "fix", "analyze"})
    => isGenerating

\* C29: the step in which handleGenerate or handleAutoFix settles with a
\* failure leaves tableData unchanged, shows exactly one alert and ends with
\* isGenerating false and an empty loadingMessage; the step in which either
\* handler starts its core call leaves tableData unchanged too.
C29_FailureLeavesTable ==
  [][/\ (settled'.handler \in {"generate", "fix"} /\ ~settled'.ok) =>
          /\ tableData' = tableData
          /\ Len(settled'.alerts) = 1
          /\ isGenerating' = FALSE
          /\ loadingMessage' = NoMsg
     /\ (/\ Len(pending') = Len(pending) + 1
         /\ pending'[Len(pending')].kind \in {"generate", "fix"}) =>
          tableData' = tableData]_appVars

\* a generation started on a filled table has failed for good with a 503
C29_Witness ==
  /\ settled.handler = "generate"
  /\ ~settled.ok
  /\ settled.alerts = <<"overload">>
  /\ Len(tableData) = MaxAppRows
  /\ ~isGenerating
  /\ loadingMessage = NoMsg
  /\ pending = <<>>

\* C30: a call rejected once the retries are exhausted, with a failure whose
\* code is 429 (503), makes handleApiError show the quota (overload) alert.
C30_SameStatusCode ==
  (pc = "rejected" /\ retries = 0 /\ IsRetriable(thrown)) =>
    /\ LooseEqNum(ErrorCode(thrown), 429) => HandleApiError(thrown) = "quota"
    /\ LooseEqNum(ErrorCode(thrown), 503) => HandleApiError(thrown) = "overload"

====
